---- MODULE Spec2Model ----
(***************************************************************************)
(* The graph executor of package graph (src/graph/graph.go): the builder   *)
(* operations New, AddNode, AddEdge, SetEntrypoint and the control loop of *)
(* Graph.Run.  Nodes are external collaborators: what Execute and Route    *)
(* return is an input, drawn from small sets at the time of the call.      *)
(***************************************************************************)
EXTENDS Naturals, Sequences, FiniteSets

\* ------------------------------------------------------------------ bounds
\* Total number of default edges AddEdge may register.
MaxEdges == 2
\* Number of Execute dispatches one Run may make (caps runs on cyclic graphs).
MaxSteps == 3

\* ------------------------------------------------------------- value sets
\* Node names used with the builder; "" is Go's empty string.
NodeNames == {"A", "B"}
Empty == ""
\* Runs of the graph; Spec calls Run once (run 1).
RunIds == {1, 2}
SeqRuns == {1}

\* The zero value of the state type S (a nil pointer for S = *T).
Zero == <<>>
\* State values passed to Run.
InitialStates == {Zero, <<"s">>}

\* error values: nil, the two errors ctx.Err() can give, and node errors.
NilErr == [kind |-> "nil", node |-> Empty]
Canceled == [kind |-> "context.Canceled", node |-> Empty]
DeadlineExceeded == [kind |-> "context.DeadlineExceeded", node |-> Empty]
CtxErrors == {Canceled, DeadlineExceeded}
ExecError(name) == [kind |-> "Execute", node |-> name]
RouteError(name) == [kind |-> "Route", node |-> name]

\* Node implementations: a plain Node, or a Node that is also a Router.
NodeImpls == {[router |-> FALSE], [router |-> TRUE]}

VARIABLES
    id,          \* Graph.id
    nodes,       \* Graph.nodes: map name -> Node
    edges,       \* Graph.edges: map name -> []string
    entrypoint,  \* Graph.entrypoint
    firstAdded,  \* history: per source, the target of the first AddEdge call
    ctxErr,      \* per run: ctx.Err() of the context passed to Run
    pc,          \* per run: position of the Run call
    current,     \* per run: Run's local variable current
    state,       \* per run: Run's variable state
    initial,     \* history: the state Run was called with
    result,      \* per run: the (state, error) Run returned
    calls,       \* history: the Execute/Route invocations of the run, in order
    rets,        \* history: what those invocations returned, in order
    wpc,         \* Worker: "none" before worker.New, "new" after it
    wconfig,     \* Worker.config
    wctxErr,     \* ctx.Err() of the context passed to Worker.Start
    wstart,      \* position of the Worker.Start call
    wstartErr,   \* the error Worker.Start returned
    wstop        \* position of the Worker.Stop call

graphVars == <<id, nodes, edges, entrypoint, firstAdded>>
runVars == <<ctxErr, pc, current, state, initial, result, calls, rets>>
workerVars == <<wpc, wconfig, wctxErr, wstart, wstartErr, wstop>>
vars == <<id, nodes, edges, entrypoint, firstAdded,
          ctxErr, pc, current, state, initial, result, calls, rets,
          wpc, wconfig, wctxErr, wstart, wstartErr, wstop>>

NoResult == [state |-> Zero, err |-> NilErr]

\* ---------------------------------------------------------------- helpers
\* g.edges[name]: a missing key reads as the nil (empty) slice.
EdgesOf(name) == IF name \in DOMAIN edges THEN edges[name] ELSE <<>>

RECURSIVE SumLen(_)
SumLen(S) == IF S = {} THEN 0
             ELSE LET n == CHOOSE x \in S : TRUE
                  IN Len(edges[n]) + SumLen(S \ {n})
TotalEdges == SumLen(DOMAIN edges)

\* The builder is used before any Run begins (spec section 5).
Building == \A r \in RunIds : pc[r] = "idle"

\* cfg := config{concurrency: 1, pollInterval: time.Second}
DefaultConfig ==
    [controlPlane |-> "", concurrency |-> 1, pollInterval |-> "1s", apiKey |-> ""]

\* ------------------------------------------------------------------- New
InitGraph ==
    /\ id = "my_agent"
    /\ nodes = <<>>
    /\ edges = <<>>
    /\ entrypoint = Empty
    /\ firstAdded = [n \in NodeNames |-> Empty]

\* No Run has been called and no worker made.
InitRuns ==
    /\ ctxErr = [r \in RunIds |-> NilErr]
    /\ pc = [r \in RunIds |-> "idle"]
    /\ current = [r \in RunIds |-> Empty]
    /\ state = [r \in RunIds |-> Zero]
    /\ initial = [r \in RunIds |-> Zero]
    /\ result = [r \in RunIds |-> NoResult]
    /\ calls = [r \in RunIds |-> <<>>]
    /\ rets = [r \in RunIds |-> <<>>]
    /\ wpc = "none"
    /\ wconfig = DefaultConfig
    /\ wctxErr = NilErr
    /\ wstart = "idle"
    /\ wstartErr = NilErr
    /\ wstop = "idle"

Init == InitGraph /\ InitRuns

\* --------------------------------------------------------------- builder
\* g.nodes[name] = node
PutNode(name, node) ==
    [n \in DOMAIN nodes \cup {name} |-> IF n = name THEN node ELSE nodes[n]]

AddNode(name, node) ==
    /\ Building
    /\ nodes' = PutNode(name, node)
    /\ UNCHANGED <<id, edges, entrypoint, firstAdded>>
    /\ UNCHANGED runVars
    /\ UNCHANGED workerVars

\* A mutant of AppendEdge: the new edge is put in front.
AppendEdgeFront(es, to) == <<to>> \o es

\* append(g.edges[from], to)
AppendEdge(es, to) == Append(es, to)

AddEdge(from, to) ==
    /\ Building
    /\ TotalEdges < MaxEdges
    /\ edges' = [n \in DOMAIN edges \cup {from} |->
                    IF n = from THEN AppendEdge(EdgesOf(from), to) ELSE edges[n]]
    /\ firstAdded' = IF firstAdded[from] = Empty
                     THEN [firstAdded EXCEPT ![from] = to]
                     ELSE firstAdded
    /\ UNCHANGED <<id, nodes, entrypoint>>
    /\ UNCHANGED runVars
    /\ UNCHANGED workerVars

SetEntrypoint(name) ==
    /\ Building
    /\ entrypoint' = name
    /\ UNCHANGED <<id, nodes, edges, firstAdded>>
    /\ UNCHANGED runVars
    /\ UNCHANGED workerVars

\* --------------------------------------------------------------- context
\* The context of run r is cancelled, or its deadline passes.
Cancel(r, e) ==
    /\ pc[r] # "done"
    /\ ctxErr[r] = NilErr
    /\ ctxErr' = [ctxErr EXCEPT ![r] = e]
    /\ UNCHANGED graphVars
    /\ UNCHANGED workerVars
    /\ UNCHANGED <<pc, current, state, initial, result, calls, rets>>

\* ------------------------------------------------------------------ nodes
\* What a node's Execute returns on success: the node appends its name.
ExecOut(name, s) == Append(s, name)
\* What a node's Execute may return as state beside an error: the state it was
\* given, a partially updated state, or the zero value (return nil, err).
ExecFailStates(name, s) == {s, Append(s, name), Zero}
\* What a router's Route may return as the next name.
RouteTargets == NodeNames \cup {Empty}

\* -------------------------------------------------------------------- Run
Dispatched(r) == Cardinality({i \in 1..Len(calls[r]) : calls[r][i].op = "Execute"})

\* A mutant of CtxDone: the context is never looked at.
CtxDoneNever(r) == FALSE

\* A mutant of CtxDone: the context is looked at before the first node only.
CtxDoneFirstOnly(r) == ctxErr[r] # NilErr /\ calls[r] = <<>>

\* case <-ctx.Done()
CtxDone(r) == ctxErr[r] # NilErr

\* node, ok := g.nodes[current]
Registered(name) == name \in DOMAIN nodes

\* A mutant of IsRouter: the Router capability is never found.
IsRouterNever(name) == FALSE

\* router, ok := node.(Router[S])
IsRouter(name) == nodes[name].router

\* A mutant of DefaultNext: the edges are not followed.
DefaultNextNone(cur) == Empty

\* A mutant of DefaultNext: the last edge added is followed.
DefaultNextLast(cur) ==
    IF Len(EdgesOf(cur)) > 0 THEN EdgesOf(cur)[Len(EdgesOf(cur))] ELSE Empty

\* edges := g.edges[current]; current = edges[0] or ""
DefaultNext(cur) ==
    IF Len(EdgesOf(cur)) > 0 THEN EdgesOf(cur)[1] ELSE Empty

\* A mutant of RouteNext: a default edge, when there is one, wins over Route.
RouteNextEdgeFirst(cur, next) ==
    IF Len(EdgesOf(cur)) > 0 THEN EdgesOf(cur)[1] ELSE next

\* A mutant of RouteNext: an empty Route result falls back to the default edge.
RouteNextFallback(cur, next) ==
    IF next = Empty /\ Len(EdgesOf(cur)) > 0 THEN EdgesOf(cur)[1] ELSE next

\* current = next
RouteNext(cur, next) == next

\* A mutant of ExecReturn: the state is rolled back when Execute fails.
ExecReturnRollback(prev, out, e) == IF e = NilErr THEN out ELSE prev

\* A mutant of ExecReturn: Execute's state result is dropped.
ExecReturnStale(prev, out, e) == prev

\* state, err = node.Execute(ctx, state): state is assigned whatever err is
ExecReturn(prev, out, e) == out

Return(r, s, e) ==
    /\ pc' = [pc EXCEPT ![r] = "done"]
    /\ result' = [result EXCEPT ![r] = [state |-> s, err |-> e]]

\* A mutant of RunCall: Run looks at the context before it enters the loop.
RunCallChecksCtx(r, s0) ==
    /\ pc[r] = "idle"
    /\ IF CtxDone(r)
       THEN Return(r, s0, ctxErr[r])
       ELSE pc' = [pc EXCEPT ![r] = "loop"] /\ UNCHANGED result
    /\ current' = [current EXCEPT ![r] = entrypoint]
    /\ state' = [state EXCEPT ![r] = s0]
    /\ initial' = [initial EXCEPT ![r] = s0]
    /\ UNCHANGED graphVars
    /\ UNCHANGED workerVars
    /\ UNCHANGED <<ctxErr, calls, rets>>

\* A mutant of RunCall: a later Run resumes where the first one stopped.
RunCallResumes(r, s0) ==
    /\ pc[r] = "idle"
    /\ pc' = [pc EXCEPT ![r] = "loop"]
    /\ current' = [current EXCEPT ![r] = IF r = 1 THEN entrypoint ELSE current[1]]
    /\ state' = [state EXCEPT ![r] = s0]
    /\ initial' = [initial EXCEPT ![r] = s0]
    /\ UNCHANGED graphVars
    /\ UNCHANGED workerVars
    /\ UNCHANGED <<ctxErr, result, calls, rets>>

\* A mutant of RunCall: current is one variable shared by all runs.
RunCallShared(r, s0) ==
    /\ pc[r] = "idle"
    /\ pc' = [pc EXCEPT ![r] = "loop"]
    /\ current' = [q \in RunIds |-> entrypoint]
    /\ state' = [state EXCEPT ![r] = s0]
    /\ initial' = [initial EXCEPT ![r] = s0]
    /\ UNCHANGED graphVars
    /\ UNCHANGED workerVars
    /\ UNCHANGED <<ctxErr, result, calls, rets>>

\* Run is called with context r and an initial state: current := g.entrypoint.
RunCall(r, s0) ==
    /\ pc[r] = "idle"
    /\ pc' = [pc EXCEPT ![r] = "loop"]
    /\ current' = [current EXCEPT ![r] = entrypoint]
    /\ state' = [state EXCEPT ![r] = s0]
    /\ initial' = [initial EXCEPT ![r] = s0]
    /\ UNCHANGED graphVars
    /\ UNCHANGED workerVars
    /\ UNCHANGED <<ctxErr, result, calls, rets>>

\* A mutant of LoopExit: the context is looked at once more after the loop.
LoopExitChecksCtx(r) ==
    /\ pc[r] = "loop"
    /\ current[r] = Empty
    /\ Return(r, state[r], IF CtxDone(r) THEN ctxErr[r] ELSE NilErr)
    /\ UNCHANGED graphVars
    /\ UNCHANGED workerVars
    /\ UNCHANGED <<ctxErr, current, state, initial, calls, rets>>

\* for current != "" fails: return state, nil
LoopExit(r) ==
    /\ pc[r] = "loop"
    /\ current[r] = Empty
    /\ Return(r, state[r], NilErr)
    /\ UNCHANGED graphVars
    /\ UNCHANGED workerVars
    /\ UNCHANGED <<ctxErr, current, state, initial, calls, rets>>

\* A mutant of LoopCancelled: a done context also ends the run while a node's
\* Execute or Route is in progress.
LoopCancelledAnywhere(r) ==
    /\ pc[r] \in {"loop", "exec", "route"}
    /\ pc[r] = "loop" => current[r] # Empty
    /\ ctxErr[r] # NilErr
    /\ pc' = [pc EXCEPT ![r] = "done"]
    /\ result' = [result EXCEPT ![r] = [state |-> state[r], err |-> ctxErr[r]]]
    /\ UNCHANGED graphVars
    /\ UNCHANGED workerVars
    /\ UNCHANGED <<ctxErr, current, state, initial, calls, rets>>

\* case <-ctx.Done(): return state, ctx.Err()
LoopCancelled(r) ==
    /\ pc[r] = "loop"
    /\ current[r] # Empty
    /\ CtxDone(r)
    /\ Return(r, state[r], ctxErr[r])
    /\ UNCHANGED graphVars
    /\ UNCHANGED workerVars
    /\ UNCHANGED <<ctxErr, current, state, initial, calls, rets>>

\* A mutant of LoopMissing: an unregistered name is reported as an error.
LoopMissingError(r) ==
    /\ pc[r] = "loop"
    /\ current[r] # Empty
    /\ ~CtxDone(r)
    /\ ~Registered(current[r])
    /\ Return(r, state[r], [kind |-> "node not found", node |-> current[r]])
    /\ UNCHANGED graphVars
    /\ UNCHANGED workerVars
    /\ UNCHANGED <<ctxErr, current, state, initial, calls, rets>>

\* A mutant of LoopMissing: cycle detection, the run also ends cleanly when the
\* name to dispatch has been executed before.
LoopMissingRevisit(r) ==
    /\ pc[r] = "loop"
    /\ current[r] # Empty
    /\ ~CtxDone(r)
    /\ \/ ~Registered(current[r])
       \/ \E i \in 1..Len(calls[r]) : calls[r][i].node = current[r]
    /\ Return(r, state[r], NilErr)
    /\ UNCHANGED graphVars
    /\ UNCHANGED workerVars
    /\ UNCHANGED <<ctxErr, current, state, initial, calls, rets>>

\* A mutant of LoopMissing: the registry is looked up before the context.
LoopMissingFirst(r) ==
    /\ pc[r] = "loop"
    /\ current[r] # Empty
    /\ ~Registered(current[r])
    /\ Return(r, state[r], NilErr)
    /\ UNCHANGED graphVars
    /\ UNCHANGED workerVars
    /\ UNCHANGED <<ctxErr, current, state, initial, calls, rets>>

\* if !ok { break }; return state, nil
LoopMissing(r) ==
    /\ pc[r] = "loop"
    /\ current[r] # Empty
    /\ ~CtxDone(r)
    /\ ~Registered(current[r])
    /\ Return(r, state[r], NilErr)
    /\ UNCHANGED graphVars
    /\ UNCHANGED workerVars
    /\ UNCHANGED <<ctxErr, current, state, initial, calls, rets>>

\* node.Execute(ctx, state) is called
Dispatch(r) ==
    /\ pc[r] = "loop"
    /\ current[r] # Empty
    /\ ~CtxDone(r)
    /\ Registered(current[r])
    /\ Dispatched(r) < MaxSteps
    /\ pc' = [pc EXCEPT ![r] = "exec"]
    /\ calls' = [calls EXCEPT ![r] =
                    Append(@, [op |-> "Execute", node |-> current[r], arg |-> state[r]])]
    /\ UNCHANGED graphVars
    /\ UNCHANGED workerVars
    /\ UNCHANGED <<ctxErr, current, state, initial, result, rets>>

\* A mutant of ExecuteOk: the default edge that is followed is removed from
\* the graph.
ExecuteOkPopsEdge(r) ==
    /\ pc[r] = "exec"
    /\ ~nodes[current[r]].router
    /\ state' = [state EXCEPT ![r] = Append(@, current[r])]
    /\ rets' = [rets EXCEPT ![r] =
                   Append(@, [state |-> Append(state[r], current[r]),
                              next |-> Empty, err |-> NilErr])]
    /\ pc' = [pc EXCEPT ![r] = "loop"]
    /\ current' = [current EXCEPT ![r] =
                      IF Len(EdgesOf(current[r])) > 0
                      THEN EdgesOf(current[r])[1] ELSE Empty]
    /\ edges' = IF Len(EdgesOf(current[r])) > 0
                THEN [edges EXCEPT ![current[r]] = Tail(@)]
                ELSE edges
    /\ UNCHANGED <<id, nodes, entrypoint, firstAdded>>
    /\ UNCHANGED <<ctxErr, initial, result, calls>>
    /\ UNCHANGED workerVars

\* Execute returns a nil error: Route is called on a router, the first default
\* edge is followed otherwise.
ExecuteOk(r) ==
    /\ pc[r] = "exec"
    /\ LET out == ExecOut(current[r], state[r])
           s == ExecReturn(state[r], out, NilErr)
       IN /\ state' = [state EXCEPT ![r] = s]
          /\ rets' = [rets EXCEPT ![r] =
                         Append(@, [state |-> out, next |-> Empty, err |-> NilErr])]
          /\ IF IsRouter(current[r])
             THEN /\ pc' = [pc EXCEPT ![r] = "route"]
                  /\ calls' = [calls EXCEPT ![r] =
                                  Append(@, [op |-> "Route", node |-> current[r], arg |-> s])]
                  /\ UNCHANGED current
             ELSE /\ pc' = [pc EXCEPT ![r] = "loop"]
                  /\ current' = [current EXCEPT ![r] = DefaultNext(current[r])]
                  /\ UNCHANGED calls
    /\ UNCHANGED graphVars
    /\ UNCHANGED workerVars
    /\ UNCHANGED <<ctxErr, initial, result>>

\* A mutant of ExecuteErr: the error is dropped and the loop goes on.
ExecuteErrIgnored(r, out) ==
    /\ pc[r] = "exec"
    /\ out \in ExecFailStates(current[r], state[r])
    /\ state' = [state EXCEPT ![r] = out]
    /\ rets' = [rets EXCEPT ![r] =
                   Append(@, [state |-> out, next |-> Empty, err |-> ExecError(current[r])])]
    /\ pc' = [pc EXCEPT ![r] = "loop"]
    /\ current' = [current EXCEPT ![r] = DefaultNext(current[r])]
    /\ UNCHANGED graphVars
    /\ UNCHANGED workerVars
    /\ UNCHANGED <<ctxErr, initial, result, calls>>

\* Execute returns an error: return state, err
ExecuteErr(r, out) ==
    /\ pc[r] = "exec"
    /\ out \in ExecFailStates(current[r], state[r])
    /\ LET e == ExecError(current[r])
           s == ExecReturn(state[r], out, e)
       IN /\ state' = [state EXCEPT ![r] = s]
          /\ rets' = [rets EXCEPT ![r] =
                         Append(@, [state |-> out, next |-> Empty, err |-> e])]
          /\ Return(r, s, e)
    /\ UNCHANGED graphVars
    /\ UNCHANGED workerVars
    /\ UNCHANGED <<ctxErr, current, initial, calls>>

\* Route returns a name and a nil error: current = next; continue
RouteOk(r, next) ==
    /\ pc[r] = "route"
    /\ next \in RouteTargets
    /\ rets' = [rets EXCEPT ![r] =
                   Append(@, [state |-> state[r], next |-> next, err |-> NilErr])]
    /\ current' = [current EXCEPT ![r] = RouteNext(current[r], next)]
    /\ pc' = [pc EXCEPT ![r] = "loop"]
    /\ UNCHANGED graphVars
    /\ UNCHANGED workerVars
    /\ UNCHANGED <<ctxErr, state, initial, result, calls>>

\* A mutant of RouteErr: the error is dropped and the run ends cleanly.
RouteErrIgnored(r) ==
    /\ pc[r] = "route"
    /\ rets' = [rets EXCEPT ![r] =
                   Append(@, [state |-> state[r], next |-> Empty,
                              err |-> RouteError(current[r])])]
    /\ Return(r, state[r], NilErr)
    /\ UNCHANGED graphVars
    /\ UNCHANGED workerVars
    /\ UNCHANGED <<ctxErr, current, state, initial, calls>>

\* Route returns an error: return state, err
RouteErr(r) ==
    /\ pc[r] = "route"
    /\ rets' = [rets EXCEPT ![r] =
                   Append(@, [state |-> state[r], next |-> Empty,
                              err |-> RouteError(current[r])])]
    /\ Return(r, state[r], RouteError(current[r]))
    /\ UNCHANGED graphVars
    /\ UNCHANGED workerVars
    /\ UNCHANGED <<ctxErr, current, state, initial, calls>>

\* ---------------------------------------------------------- specification
Build ==
    \/ \E name \in NodeNames, node \in NodeImpls : AddNode(name, node)
    \/ \E from \in NodeNames, to \in NodeNames : AddEdge(from, to)
    \/ \E name \in NodeNames \cup {Empty} : SetEntrypoint(name)

RunStep(r) ==
    \/ \E s0 \in InitialStates : RunCall(r, s0)
    \/ \E e \in CtxErrors : Cancel(r, e)
    \/ LoopExit(r)
    \/ LoopCancelled(r)
    \/ LoopMissing(r)
    \/ Dispatch(r)
    \/ ExecuteOk(r)
    \/ \E out \in ExecFailStates(current[r], state[r]) : ExecuteErr(r, out)
    \/ \E next \in RouteTargets : RouteOk(r, next)
    \/ RouteErr(r)

Next == Build \/ \E r \in SeqRuns : RunStep(r)

Spec == Init /\ [][Next]_vars

\* ---------------------------------------------------------- repeated runs
\* Deterministic nodes and routers: the same call (operation, node, state)
\* gets the same answer, in whichever run it is made.
DeterministicNodes ==
    \A r1 \in RunIds, r2 \in RunIds :
        \A i \in 1..Len(rets[r1]), j \in 1..Len(rets[r2]) :
            calls[r1][i] = calls[r2][j] => rets[r1][i] = rets[r2][j]

\* Graphs the builder can have made, entered at "A": any registry over the
\* node names, and edge lists of at most MaxEdges edges in all.
BuiltNodes == UNION {[S -> NodeImpls] : S \in SUBSET NodeNames}
EdgeLists == {<<>>, <<"A">>, <<"B">>, <<"B", "A">>}
RECURSIVE SumOf(_, _)
SumOf(e, S) == IF S = {} THEN 0
               ELSE LET n == CHOOSE x \in S : TRUE
                    IN Len(e[n]) + SumOf(e, S \ {n})
BuiltEdges ==
    {[n \in {m \in NodeNames : e[m] # <<>>} |-> e[n]] :
        e \in {f \in [NodeNames -> EdgeLists] : SumOf(f, NodeNames) <= MaxEdges}}

BuiltInit ==
    /\ id = "my_agent"
    /\ nodes \in BuiltNodes
    /\ edges \in BuiltEdges
    /\ entrypoint = "A"
    /\ firstAdded = [n \in NodeNames |-> IF n \in DOMAIN edges THEN edges[n][1] ELSE Empty]
    /\ InitRuns

\* A step of run r against deterministic nodes.
RepeatStep(r) == RunStep(r) /\ DeterministicNodes'

\* Run is called once, and once more, with an equal initial state, after the
\* first call has returned.
RepeatNext ==
    \/ RepeatStep(1)
    \/ /\ pc[1] = "done"
       /\ RepeatStep(2)
       /\ pc'[2] # "idle" => initial'[2] = initial[1]

SpecRepeat == BuiltInit /\ [][RepeatNext]_vars

\* -------------------------------------------------------- concurrent runs
\* Two goroutines call Run on the same built graph, each with its own context
\* and its own state; their steps interleave freely.
\* Run 1 is given the state <<"s">> and a context that can be cancelled,
\* run 2 the zero state and context.Background().
ConcStep(r) ==
    /\ RunStep(r)
    /\ pc'[r] # "idle" => initial'[r] = (IF r = 1 THEN <<"s">> ELSE Zero)
    /\ ctxErr'[r] = (IF r = 1 /\ ctxErr'[r] # NilErr THEN Canceled ELSE NilErr)

ConcNext == \E r \in RunIds : ConcStep(r)

SpecConc == BuiltInit /\ [][ConcNext]_vars

\* ----------------------------------------------------------------- worker
\* The options New is called with: WithControlPlane, WithConcurrency,
\* WithPollInterval, WithAPIKey, each setting one field of the config.
Options ==
    {[field |-> "controlPlane", value |-> "http://localhost:8081"],
     [field |-> "concurrency", value |-> 10],
     [field |-> "pollInterval", value |-> "500ms"],
     [field |-> "apiKey", value |-> "key"]}

\* opt(&cfg)
ApplyOption(cfg, opt) == [cfg EXCEPT ![opt.field] = opt.value]

\* worker.New(g, opts...) with no option or with one.
WorkerNew(opts) ==
    /\ wpc = "none"
    /\ wpc' = "new"
    /\ wconfig' = IF opts = <<>> THEN DefaultConfig
                  ELSE ApplyOption(DefaultConfig, opts[1])
    /\ UNCHANGED <<wctxErr, wstart, wstartErr, wstop>>
    /\ UNCHANGED graphVars
    /\ UNCHANGED runVars

\* The context passed to Start is cancelled, or its deadline passes.
WorkerCancel(e) ==
    /\ wctxErr = NilErr
    /\ wstart # "returned"
    /\ wctxErr' = e
    /\ UNCHANGED <<wpc, wconfig, wstart, wstartErr, wstop>>
    /\ UNCHANGED graphVars
    /\ UNCHANGED runVars

\* w.Start(ctx) is called and blocks on <-ctx.Done()
StartCall ==
    /\ wpc = "new"
    /\ wstart = "idle"
    /\ wstart' = "blocked"
    /\ UNCHANGED <<wpc, wconfig, wctxErr, wstartErr, wstop>>
    /\ UNCHANGED graphVars
    /\ UNCHANGED runVars

\* A mutant of StartReturn: Start does not wait for the context.
StartReturnAtOnce ==
    /\ wstart = "blocked"
    /\ wstart' = "returned"
    /\ wstartErr' = wctxErr
    /\ UNCHANGED <<wpc, wconfig, wctxErr, wstop>>
    /\ UNCHANGED graphVars
    /\ UNCHANGED runVars

\* <-ctx.Done() is ready: return ctx.Err()
StartReturn ==
    /\ wstart = "blocked"
    /\ wctxErr # NilErr
    /\ wstart' = "returned"
    /\ wstartErr' = wctxErr
    /\ UNCHANGED <<wpc, wconfig, wctxErr, wstop>>
    /\ UNCHANGED graphVars
    /\ UNCHANGED runVars

\* w.Stop(): return nil
Stop ==
    /\ wpc = "new"
    /\ wstop = "idle"
    /\ wstop' = "returned"
    /\ UNCHANGED <<wpc, wconfig, wctxErr, wstart, wstartErr>>
    /\ UNCHANGED graphVars
    /\ UNCHANGED runVars

\* A worker is made for a graph that has been built.
BuildForWorker == wpc = "none" /\ Build

WorkerNext ==
    \/ BuildForWorker
    \/ \E opts \in {<<>>} \cup {<<o>> : o \in Options} : WorkerNew(opts)
    \/ \E e \in CtxErrors : WorkerCancel(e)
    \/ StartCall
    \/ StartReturn
    \/ Stop

\* The worker's goroutine runs: a Start whose context is done returns.
SpecWorker == Init /\ [][WorkerNext]_vars /\ WF_vars(StartReturn)

\* The steps Run r takes by itself once called: the loop's own steps and the
\* returns of the Execute and Route calls it made.
RunProgress(r) ==
    \/ LoopExit(r)
    \/ LoopCancelled(r)
    \/ LoopMissing(r)
    \/ Dispatch(r)
    \/ ExecuteOk(r)
    \/ \E out \in ExecFailStates(current[r], state[r]) : ExecuteErr(r, out)
    \/ \E next \in RouteTargets : RouteOk(r, next)
    \/ RouteErr(r)

\* Spec with a Run that keeps running while it can and node calls that return.
SpecLive == Init /\ [][Next]_vars /\ \A r \in SeqRuns : WF_vars(RunProgress(r))

\* ------------------------------------------------- reading the histories
\* The invocations of run r that have returned and are Execute calls.
ExecReturns(r) == {i \in 1..Len(rets[r]) : calls[r][i].op = "Execute"}
OkExecReturns(r) == {i \in ExecReturns(r) : rets[r][i].err = NilErr}
MaxOf(S) == CHOOSE x \in S : \A y \in S : y <= x

\* The state returned by the last Execute that returned (the initial state
\* when none did), and by the last Execute that returned a nil error.
LastExecState(r) ==
    IF ExecReturns(r) = {} THEN initial[r] ELSE rets[r][MaxOf(ExecReturns(r))].state
LastOkState(r) ==
    IF OkExecReturns(r) = {} THEN initial[r] ELSE rets[r][MaxOf(OkExecReturns(r))].state

NoNodeFailed(r) == \A i \in 1..Len(rets[r]) : rets[r][i].err = NilErr
\* Cancel is not taken after Run has returned, so at "done" this reads
\* "the context was not done during the run".
NeverCancelled(r) == ctxErr[r] = NilErr

\* The nodes met from n along first default edges, stopping at a repeat.
RECURSIVE ChainFrom(_, _)
ChainFrom(n, seen) ==
    IF n = Empty \/ n \in seen \/ n \notin DOMAIN nodes THEN <<>>
    ELSE <<n>> \o ChainFrom(IF Len(EdgesOf(n)) > 0 THEN EdgesOf(n)[1] ELSE Empty,
                            seen \cup {n})
Chain == ChainFrom(entrypoint, {})

\* The graph is one linear chain of registered non-router nodes.
IsLinearChain ==
    /\ entrypoint \in DOMAIN nodes
    /\ \A n \in DOMAIN nodes : ~nodes[n].router
    /\ {Chain[i] : i \in 1..Len(Chain)} = DOMAIN nodes
    /\ \A i \in 1..Len(Chain) :
          EdgesOf(Chain[i]) = IF i < Len(Chain) THEN <<Chain[i + 1]>> ELSE <<>>
    /\ \A n \in DOMAIN edges \ DOMAIN nodes : edges[n] = <<>>

\* ------------------------------------------------------------------ claims
\* C1: on a linear chain of N registered non-router nodes, Run invokes only
\* Execute, on the chain's nodes in edge order and each at most once; when the
\* context is never cancelled and no node fails, a finished Run has invoked
\* every node exactly once and returns the last node's state with a nil error.
C1_LinearChain ==
    \A r \in RunIds :
        IsLinearChain =>
            /\ Len(calls[r]) <= Len(Chain)
            /\ \A i \in 1..Len(calls[r]) :
                  calls[r][i].op = "Execute" /\ calls[r][i].node = Chain[i]
            /\ (pc[r] = "done" /\ NeverCancelled(r) /\ NoNodeFailed(r)) =>
                  /\ Len(calls[r]) = Len(Chain)
                  /\ result[r].err = NilErr
                  /\ result[r].state = rets[r][Len(rets[r])].state
                  /\ result[r].state = initial[r] \o Chain

C1_Witness ==
    \E r \in RunIds :
        /\ IsLinearChain /\ Len(Chain) = 2
        /\ pc[r] = "done" /\ NeverCancelled(r) /\ NoNodeFailed(r)
        /\ Len(calls[r]) = 2 /\ initial[r] = <<"s">>

\* C2: after a Route that returned a name and a nil error, the next node
\* dispatched is the one Route named, whatever the router's default edges.
C2_RouterPrecedence ==
    \A r \in RunIds : \A i \in 1..Len(rets[r]) :
        (calls[r][i].op = "Route" /\ rets[r][i].err = NilErr) =>
            /\ i < Len(calls[r]) =>
                  /\ calls[r][i + 1].op = "Execute"
                  /\ calls[r][i + 1].node = rets[r][i].next
            /\ (i = Len(calls[r]) /\ pc[r] = "loop") => current[r] = rets[r][i].next

C2_Witness ==
    \E r \in RunIds : \E i \in 1..Len(rets[r]) :
        /\ calls[r][i].op = "Route" /\ rets[r][i].err = NilErr
        /\ Len(EdgesOf(calls[r][i].node)) > 0
        /\ EdgesOf(calls[r][i].node)[1] # rets[r][i].next
        /\ i < Len(calls[r])
        /\ calls[r][i + 1].node = rets[r][i].next

\* C3: an Execute that returned an error is the last invocation of its run,
\* and Run has returned that error with the state that Execute returned.
C3_ExecuteError ==
    \A r \in RunIds : \A i \in 1..Len(rets[r]) :
        (calls[r][i].op = "Execute" /\ rets[r][i].err # NilErr) =>
            /\ i = Len(calls[r])
            /\ pc[r] = "done"
            /\ result[r] = [state |-> rets[r][i].state, err |-> rets[r][i].err]

C3_Witness ==
    \E r \in RunIds :
        /\ pc[r] = "done" /\ Len(calls[r]) = 2 /\ Len(rets[r]) = 2
        /\ calls[r][2].op = "Execute" /\ rets[r][2].err = ExecError(calls[r][2].node)
        /\ Len(EdgesOf(calls[r][2].node)) > 0
        /\ EdgesOf(calls[r][2].node)[1] \in DOMAIN nodes
        /\ result[r].state = Zero /\ calls[r][2].arg # Zero

\* C4 as written: a finished Run returns the state as of the last node that
\* executed successfully (the initial state when none did).
C4_LastSuccessfulState ==
    \A r \in RunIds : pc[r] = "done" => result[r].state = LastOkState(r)

\* C4 as amended: a finished Run returns the state returned by the last Execute
\* that returned, failing or not (the initial state when none was invoked);
\* that is the last successful node's state unless Execute's error ended the run.
C4_LastReturnedState ==
    \A r \in RunIds :
        pc[r] = "done" =>
            /\ result[r].state = LastExecState(r)
            /\ result[r].err.kind # "Execute" => result[r].state = LastOkState(r)

C4_Witness ==
    \E r \in RunIds :
        /\ pc[r] = "done" /\ result[r].err.kind = "Execute"
        /\ OkExecReturns(r) # {}
        /\ result[r].state # LastOkState(r)
        /\ result[r].state = LastExecState(r)

\* Run r, at the top of a loop iteration, leaves the loop in this step.
LeavesLoopTop(r) == pc[r] = "loop" /\ pc'[r] # "loop"

\* Run r returns (s, e) in this step, having invoked nothing more.
ReturnsNow(r, s, e) ==
    /\ pc'[r] = "done"
    /\ calls'[r] = calls[r]
    /\ result'[r] = [state |-> s, err |-> e]

\* C5 as written: with the context done before the first node executes, Run
\* returns the initial state and the context's error and invokes no node.
C5_CancelledBeforeFirst ==
    [][\A r \in RunIds :
          (LeavesLoopTop(r) /\ calls[r] = <<>> /\ ctxErr[r] # NilErr) =>
              ReturnsNow(r, initial[r], ctxErr[r])]_vars

\* C5 as amended: with the context done before the first node executes, Run
\* invokes no node and returns the initial state, with the context's error when
\* the entrypoint is not empty and with a nil error when it is empty.
C5_CancelledBeforeFirstNonEmpty ==
    [][\A r \in RunIds :
          (LeavesLoopTop(r) /\ calls[r] = <<>> /\ ctxErr[r] # NilErr) =>
              ReturnsNow(r, initial[r],
                         IF current[r] # Empty THEN ctxErr[r] ELSE NilErr)]_vars

C5_Witness ==
    \E r \in RunIds :
        /\ pc[r] = "done" /\ calls[r] = <<>>
        /\ entrypoint \in DOMAIN nodes
        /\ initial[r] # Zero
        /\ result[r] = [state |-> initial[r], err |-> ctxErr[r]]
        /\ ctxErr[r] \in CtxErrors

\* C6: whenever the context is done at the top of an iteration with a node
\* still to dispatch, Run returns the last executed node's state with the
\* context's error and invokes nothing more; a returned Run invokes nothing.
C6_CancelledBetweenNodes ==
    [][\A r \in RunIds :
          /\ (LeavesLoopTop(r) /\ current[r] # Empty /\ ctxErr[r] # NilErr) =>
                ReturnsNow(r, LastExecState(r), ctxErr[r])
          /\ pc[r] = "done" =>
                pc'[r] = "done" /\ calls'[r] = calls[r] /\ result'[r] = result[r]]_vars

C6_Witness ==
    \E r \in RunIds :
        /\ pc[r] = "done" /\ Len(calls[r]) >= 2
        /\ current[r] \in DOMAIN nodes
        /\ ctxErr[r] \in CtxErrors
        /\ result[r] = [state |-> LastExecState(r), err |-> ctxErr[r]]
        /\ result[r].state # initial[r]

\* C7 as written: whenever the name to dispatch next is not in the registry,
\* Run ends with a nil error, invokes nothing more and returns the state as of
\* the last executed node.
C7_MissingNode ==
    [][\A r \in RunIds :
          (LeavesLoopTop(r) /\ current[r] \notin DOMAIN nodes) =>
              ReturnsNow(r, LastExecState(r), NilErr)]_vars

\* C7 as amended: whenever the name to dispatch next is not in the registry,
\* Run invokes nothing more and returns the state as of the last executed
\* node, with a nil error when the name is empty or the context is not done at
\* that point, and with the context's error otherwise.
C7_MissingNodeLiveContext ==
    [][\A r \in RunIds :
          (LeavesLoopTop(r) /\ current[r] \notin DOMAIN nodes) =>
              ReturnsNow(r, LastExecState(r),
                         IF current[r] = Empty \/ ctxErr[r] = NilErr
                         THEN NilErr ELSE ctxErr[r])]_vars

C7_Witness ==
    \E r \in RunIds :
        /\ pc[r] = "done" /\ Len(calls[r]) >= 1
        /\ current[r] # Empty /\ current[r] \notin DOMAIN nodes
        /\ ctxErr[r] = NilErr
        /\ result[r] = [state |-> LastExecState(r), err |-> NilErr]

\* C8: a Route that returned an error is the last invocation of its run, and
\* Run has returned that error with the state the same node's Execute returned.
C8_RouteError ==
    \A r \in RunIds : \A i \in 1..Len(rets[r]) :
        (calls[r][i].op = "Route" /\ rets[r][i].err # NilErr) =>
            /\ i = Len(calls[r])
            /\ pc[r] = "done"
            /\ i > 1
            /\ calls[r][i - 1].op = "Execute"
            /\ calls[r][i - 1].node = calls[r][i].node
            /\ result[r] = [state |-> rets[r][i - 1].state, err |-> rets[r][i].err]

C8_Witness ==
    \E r \in RunIds :
        /\ pc[r] = "done" /\ Len(rets[r]) = 4
        /\ calls[r][4].op = "Route"
        /\ result[r].err = RouteError(calls[r][4].node)
        /\ result[r].state = rets[r][3].state

\* The graph has a single node, a router, which is the entrypoint.
SingleRouterGraph ==
    /\ entrypoint \in NodeNames
    /\ DOMAIN nodes = {entrypoint}
    /\ nodes[entrypoint].router

\* C9: a Route that returned the empty string and a nil error is the last
\* invocation of its run, which ends with a nil error and the state the same
\* node's Execute returned, default edges or not; on a graph of one router
\* whose Route returns the empty string, Run invokes Execute, then Route, each
\* once and nothing else (both, when nothing fails and nothing is cancelled).
C9_EmptyRoute ==
    \A r \in RunIds :
        /\ \A i \in 1..Len(rets[r]) :
              (calls[r][i].op = "Route" /\ rets[r][i].err = NilErr
                  /\ rets[r][i].next = Empty) =>
                  /\ i = Len(calls[r])
                  /\ \/ pc[r] = "loop" /\ current[r] = Empty
                     \/ /\ pc[r] = "done"
                        /\ result[r] = [state |-> rets[r][i - 1].state, err |-> NilErr]
        /\ (SingleRouterGraph
               /\ \A i \in 1..Len(rets[r]) : rets[r][i].next = Empty) =>
              /\ Len(calls[r]) <= 2
              /\ \A i \in 1..Len(calls[r]) :
                    /\ calls[r][i].op = IF i = 1 THEN "Execute" ELSE "Route"
                    /\ calls[r][i].node = entrypoint
              /\ (pc[r] = "done" /\ NeverCancelled(r) /\ NoNodeFailed(r)) =>
                    Len(calls[r]) = 2

C9_Witness ==
    \E r \in RunIds :
        /\ SingleRouterGraph
        /\ Len(EdgesOf(entrypoint)) > 0
        /\ EdgesOf(entrypoint)[1] = entrypoint
        /\ pc[r] = "done" /\ Len(rets[r]) = 2
        /\ rets[r][2] = [state |-> rets[r][1].state, next |-> Empty, err |-> NilErr]
        /\ result[r] = [state |-> rets[r][1].state, err |-> NilErr]

\* C10: after a successful Execute of a non-router node, the next node
\* dispatched is the target of the first AddEdge call for that node, whatever
\* edges were added later; with no default edge the run ends with a nil error.
C10_FirstEdge ==
    \A r \in RunIds : \A i \in OkExecReturns(r) :
        LET n == calls[r][i].node IN
        ~nodes[n].router =>
            /\ i < Len(calls[r]) =>
                  /\ calls[r][i + 1].op = "Execute"
                  /\ calls[r][i + 1].node = firstAdded[n]
            /\ (i = Len(calls[r]) /\ pc[r] = "loop") => current[r] = firstAdded[n]
            /\ (Len(EdgesOf(n)) > 0) <=> (firstAdded[n] # Empty)
            /\ Len(EdgesOf(n)) = 0 =>
                  /\ i = Len(calls[r])
                  /\ \/ pc[r] = "loop" /\ current[r] = Empty
                     \/ /\ pc[r] = "done"
                        /\ result[r] = [state |-> rets[r][i].state, err |-> NilErr]

C10_Witness ==
    \E r \in RunIds : \E i \in OkExecReturns(r) :
        LET n == calls[r][i].node IN
        /\ ~nodes[n].router
        /\ Len(EdgesOf(n)) = 2
        /\ EdgesOf(n)[1] # EdgesOf(n)[2]
        /\ i < Len(calls[r])
        /\ calls[r][i + 1].node = EdgesOf(n)[1]
        /\ pc[r] = "done"

\* C13: from the call of Run to its return, however it ends, no step changes
\* the graph's id, node registry, edge lists or entrypoint.
C13_RunLeavesGraph ==
    [][(\E r \in RunIds : pc[r] # "idle" \/ pc'[r] # "idle") =>
          /\ id' = id
          /\ nodes' = nodes
          /\ edges' = edges
          /\ entrypoint' = entrypoint]_vars

C13_Witness ==
    \E r \in RunIds :
        /\ pc[r] = "done" /\ Len(calls[r]) >= 2
        /\ TotalEdges > 0
        /\ entrypoint \in DOMAIN nodes
        /\ result[r].state # initial[r]

\* C14: a builder step changes one thing only: AddNode the registry entry of
\* one name, AddEdge one edge list, by appending the target at its end,
\* SetEntrypoint the entrypoint; none changes the id or a run; and each is
\* possible for every name, registered or not.
C14_BuilderFrame ==
    /\ [][/\ id' = id
          /\ nodes' # nodes =>
                /\ \E name \in NodeNames, node \in NodeImpls :
                      /\ DOMAIN nodes' = DOMAIN nodes \cup {name}
                      /\ nodes'[name] = node
                      /\ \A n \in DOMAIN nodes \ {name} : nodes'[n] = nodes[n]
                /\ edges' = edges /\ entrypoint' = entrypoint
                /\ UNCHANGED runVars
          /\ edges' # edges =>
                /\ \E from \in NodeNames, to \in NodeNames :
                      /\ DOMAIN edges' = DOMAIN edges \cup {from}
                      /\ edges'[from] = Append(EdgesOf(from), to)
                      /\ \A n \in DOMAIN edges \ {from} : edges'[n] = edges[n]
                /\ nodes' = nodes /\ entrypoint' = entrypoint
                /\ UNCHANGED runVars
          /\ entrypoint' # entrypoint =>
                /\ nodes' = nodes /\ edges' = edges
                /\ UNCHANGED runVars]_vars
    /\ [](Building =>
            /\ \A name \in NodeNames, node \in NodeImpls : ENABLED AddNode(name, node)
            /\ \A name \in NodeNames \cup {Empty} : ENABLED SetEntrypoint(name)
            /\ TotalEdges < MaxEdges =>
                  \A from \in NodeNames, to \in NodeNames : ENABLED AddEdge(from, to))

C14_Witness ==
    \E from \in NodeNames \ DOMAIN nodes :
        /\ Len(EdgesOf(from)) = 2
        /\ edges[from][1] # edges[from][2]
        /\ entrypoint = from
        /\ DOMAIN nodes # {}

\* C17: the first Execute of a run receives the initial state, every later
\* Execute the state the Execute before it returned, and every Route the state
\* the Execute of the same node returned just before it.
C17_StateThreading ==
    \A r \in RunIds : \A i \in 1..Len(calls[r]) :
        /\ i = 1 => calls[r][i].op = "Execute" /\ calls[r][i].arg = initial[r]
        /\ (i > 1 /\ calls[r][i].op = "Execute") =>
              calls[r][i].arg = rets[r][MaxOf({j \in 1..(i - 1) :
                                                  calls[r][j].op = "Execute"})].state
        /\ calls[r][i].op = "Route" =>
              /\ i > 1
              /\ calls[r][i - 1].op = "Execute"
              /\ calls[r][i - 1].node = calls[r][i].node
              /\ calls[r][i].arg = rets[r][i - 1].state

C17_Witness ==
    \E r \in RunIds :
        /\ Len(calls[r]) = 4 /\ initial[r] # Zero
        /\ calls[r][2].op = "Route" /\ calls[r][3].op = "Execute"
        /\ calls[r][4].op = "Route"
        /\ calls[r][3].arg = rets[r][1].state
        /\ calls[r][4].arg = rets[r][3].state

\* C18: every Route invocation is on a router node and comes directly after
\* the Execute of the same node, which returned a nil error; every such
\* Execute of a router is followed by exactly that one Route; so a run never
\* has more Route invocations than successful Execute invocations.
C18_RouteAfterExecute ==
    \A r \in RunIds :
        /\ \A i \in 1..Len(calls[r]) :
              calls[r][i].op = "Route" =>
                  /\ calls[r][i].node \in DOMAIN nodes
                  /\ nodes[calls[r][i].node].router
                  /\ i > 1
                  /\ calls[r][i - 1] =
                        [op |-> "Execute", node |-> calls[r][i].node,
                         arg |-> calls[r][i - 1].arg]
                  /\ rets[r][i - 1].err = NilErr
        /\ \A i \in OkExecReturns(r) :
              nodes[calls[r][i].node].router =>
                  /\ i < Len(calls[r])
                  /\ calls[r][i + 1].op = "Route"
                  /\ calls[r][i + 1].node = calls[r][i].node
        /\ Cardinality({i \in 1..Len(calls[r]) : calls[r][i].op = "Route"})
              <= Cardinality(OkExecReturns(r))

C18_Witness ==
    \E r \in RunIds :
        /\ Len(calls[r]) = 3 /\ pc[r] = "done"
        /\ calls[r][1].op = "Execute" /\ ~nodes[calls[r][1].node].router
        /\ calls[r][2].op = "Execute" /\ nodes[calls[r][2].node].router
        /\ calls[r][3].op = "Route"

\* C19: while an Execute or Route is in progress, Run returns only by that
\* call returning, the context done or not (Dispatch needs a live context, so
\* a done context met in progress was cancelled during the call); and once
\* the context is done no further node is dispatched.
C19_NoPreemption ==
    [][\A r \in RunIds :
          /\ (pc[r] \in {"exec", "route"} /\ pc'[r] # pc[r]) =>
                /\ Len(rets'[r]) = Len(rets[r]) + 1
                /\ Len(rets[r]) = Len(calls[r]) - 1
          /\ (pc[r] \in {"exec", "route"} /\ pc'[r] = pc[r]) =>
                /\ calls'[r] = calls[r] /\ rets'[r] = rets[r]
                /\ result'[r] = result[r]
          /\ ctxErr[r] # NilErr => Dispatched(r)' = Dispatched(r)]_vars

C19_Witness ==
    \E r \in RunIds :
        /\ pc[r] = "done" /\ ctxErr[r] # NilErr
        /\ Len(calls[r]) = 4 /\ Len(rets[r]) = 4
        /\ result[r].err = RouteError(calls[r][4].node)

\* C20: Run returns only on an Execute error, a Route error, an empty or
\* unregistered next name, or a done context at the top of an iteration; and
\* when its node calls return, a Run whose context is done eventually returns,
\* on cyclic graphs too.
C20_Termination ==
    /\ [][\A r \in RunIds :
             (pc[r] # "done" /\ pc'[r] = "done") =>
                 \/ /\ pc[r] = "exec"
                    /\ result'[r].err = ExecError(current[r])
                    /\ rets'[r][Len(rets'[r])].err = ExecError(current[r])
                 \/ /\ pc[r] = "route"
                    /\ result'[r].err = RouteError(current[r])
                    /\ rets'[r][Len(rets'[r])].err = RouteError(current[r])
                 \/ /\ pc[r] = "loop"
                    /\ current[r] = Empty \/ current[r] \notin DOMAIN nodes
                    /\ result'[r].err = NilErr
                 \/ /\ pc[r] = "loop"
                    /\ current[r] # Empty
                    /\ ctxErr[r] # NilErr
                    /\ result'[r].err = ctxErr[r]]_vars
    /\ \A r \in RunIds : (pc[r] # "idle" /\ ctxErr[r] # NilErr) ~> (pc[r] = "done")

C20_Witness ==
    \E r \in RunIds :
        /\ pc[r] = "done" /\ result[r].err \in CtxErrors
        /\ \E i, j \in 1..Len(calls[r]) :
              /\ i < j
              /\ calls[r][i].op = "Execute" /\ calls[r][j].op = "Execute"
              /\ calls[r][i].node = calls[r][j].node

\* C15: Start returns only with its context done, and then with the context's
\* error; a Start blocked on a done context eventually returns.
C15_StartBlocks ==
    /\ [][(wstart # "returned" /\ wstart' = "returned") =>
             /\ wstart = "blocked"
             /\ wctxErr \in CtxErrors
             /\ wstartErr' = wctxErr]_vars
    /\ [](wstart = "returned" => wctxErr \in CtxErrors /\ wstartErr = wctxErr)
    /\ (wstart = "blocked" /\ wctxErr # NilErr) ~> (wstart = "returned")

C15_Witness ==
    /\ wstart = "returned"
    /\ wstartErr = DeadlineExceeded
    /\ wconfig.concurrency = 10
    /\ DOMAIN nodes # {}

\* C16: once Stop has been called, a Start that is in progress eventually
\* returns.
C16_GracefulStop ==
    (wstop = "returned" /\ wstart = "blocked") ~> (wstart = "returned")

\* What run r found when it looked at its context: the number of invocations
\* after which it found the context done and the error it got, or 0 and nil
\* when it never found it done.
CtxOutcome(r) ==
    IF pc[r] = "done" /\ result[r].err \in CtxErrors
    THEN [after |-> Len(calls[r]) + 1, err |-> result[r].err]
    ELSE [after |-> 0, err |-> NilErr]

\* C11: two finished runs of the same graph from equal initial states, against
\* deterministic nodes and with the same context outcome, have made the same
\* invocations with the same answers and returned the same state and error.
C11_Determinism ==
    (/\ pc[1] = "done" /\ pc[2] = "done"
     /\ initial[1] = initial[2]
     /\ CtxOutcome(1) = CtxOutcome(2)) =>
        /\ calls[1] = calls[2]
        /\ rets[1] = rets[2]
        /\ result[1] = result[2]

C11_Witness ==
    /\ pc[1] = "done" /\ pc[2] = "done"
    /\ initial[1] = initial[2] /\ initial[1] # Zero
    /\ CtxOutcome(1) = CtxOutcome(2)
    /\ Len(calls[2]) = 4
    /\ calls[2][4].op = "Route"
    /\ result[2].err = RouteError(calls[2][4].node)

\* What Run gives when executed alone on the graph from state st at node cur,
\* the nodes answering as rets[r] from answer k + 1 on and the context found
\* done where CtxOutcome(r) says: the invocations cs made so far and those that
\* follow, whether Run returns with these answers, and what it returns.
RECURSIVE Alone(_, _, _, _, _)
Alone(r, cur, st, k, cs) ==
    IF cur = Empty
    THEN [calls |-> cs, ended |-> TRUE, res |-> [state |-> st, err |-> NilErr]]
    ELSE IF CtxOutcome(r).after = Len(cs) + 1
    THEN [calls |-> cs, ended |-> TRUE,
          res |-> [state |-> st, err |-> CtxOutcome(r).err]]
    ELSE IF cur \notin DOMAIN nodes
    THEN [calls |-> cs, ended |-> TRUE, res |-> [state |-> st, err |-> NilErr]]
    ELSE LET cs1 == Append(cs, [op |-> "Execute", node |-> cur, arg |-> st])
         IN IF k >= Len(rets[r])
            THEN [calls |-> cs1, ended |-> FALSE, res |-> NoResult]
            ELSE LET a == rets[r][k + 1]
                     cs2 == Append(cs1, [op |-> "Route", node |-> cur, arg |-> a.state])
                 IN IF a.err # NilErr
                    THEN [calls |-> cs1, ended |-> TRUE,
                          res |-> [state |-> a.state, err |-> a.err]]
                    ELSE IF ~nodes[cur].router
                    THEN Alone(r, IF Len(EdgesOf(cur)) > 0
                                  THEN EdgesOf(cur)[1] ELSE Empty,
                               a.state, k + 1, cs1)
                    ELSE IF k + 1 >= Len(rets[r])
                    THEN [calls |-> cs2, ended |-> FALSE, res |-> NoResult]
                    ELSE IF rets[r][k + 2].err # NilErr
                    THEN [calls |-> cs2, ended |-> TRUE,
                          res |-> [state |-> a.state, err |-> rets[r][k + 2].err]]
                    ELSE Alone(r, rets[r][k + 2].next, a.state, k + 2, cs2)

\* C12: in every interleaving of two concurrent runs of one graph, a run that
\* has returned has made the invocations and returned the state and error that
\* Run gives when executed alone with the same initial state, node answers and
\* context outcome.
C12_ConcurrentRuns ==
    \A r \in RunIds :
        pc[r] = "done" =>
            LET alone == Alone(r, entrypoint, initial[r], 0, <<>>)
            IN /\ alone.ended
               /\ calls[r] = alone.calls
               /\ result[r] = alone.res

C12_Witness ==
    /\ pc[1] = "done" /\ pc[2] = "done"
    /\ Len(calls[1]) >= 3 /\ Len(calls[2]) >= 2
    /\ calls[1] # calls[2]
    /\ initial[1] # initial[2]
    /\ result[1].err # result[2].err
    /\ result[1].err.kind = "Route"

\* The i-th node met from n along first default edges.
RECURSIVE NthFrom(_, _)
NthFrom(n, i) == IF i <= 1 THEN n ELSE NthFrom(DefaultNext(n), i - 1)

\* The first-default-edge chain from the entrypoint is made of registered
\* non-router nodes and comes back to one of them.
ChainRevisits ==
    /\ entrypoint \in DOMAIN nodes
    /\ \A i \in 1..Len(Chain) : ~nodes[Chain[i]].router
    /\ DefaultNext(Chain[Len(Chain)]) \in {Chain[i] : i \in 1..Len(Chain)}

\* Every decision run r has taken so far named a registered node: each Route
\* returned a registered name, each non-router node that returned has a first
\* default edge to a registered node.
StaysRegistered(r) ==
    /\ entrypoint \in DOMAIN nodes
    /\ \A i \in 1..Len(rets[r]) :
          IF calls[r][i].op = "Route"
          THEN rets[r][i].next \in DOMAIN nodes
          ELSE ~nodes[calls[r][i].node].router =>
                   DefaultNext(calls[r][i].node) \in DOMAIN nodes

\* C21: with a context that is never cancelled and nodes that never fail, a
\* Run whose first-default-edge chain revisits a registered node, or whose
\* decisions all name registered nodes, has not returned: it executes the
\* chain's nodes in order, round after round, and at the top of every iteration
\* the name to dispatch is registered again; the number of nodes executed
\* passes every count the model allows.
C21_NoStepLimit ==
    /\ [](\A r \in RunIds :
            (NeverCancelled(r) /\ NoNodeFailed(r)) =>
                /\ ChainRevisits =>
                      /\ pc[r] # "done"
                      /\ \A i \in 1..Len(calls[r]) :
                            /\ calls[r][i].op = "Execute"
                            /\ calls[r][i].node = NthFrom(entrypoint, i)
                      /\ pc[r] = "loop" =>
                            current[r] = NthFrom(entrypoint, Len(calls[r]) + 1)
                /\ StaysRegistered(r) =>
                      /\ pc[r] # "done"
                      /\ pc[r] = "loop" => current[r] \in DOMAIN nodes)
    /\ \A r \in SeqRuns :
          (pc[r] = "loop" /\ ChainRevisits) ~>
              (Dispatched(r) = MaxSteps \/ ~NeverCancelled(r) \/ ~NoNodeFailed(r))

C21_Witness ==
    \E r \in RunIds :
        /\ ChainRevisits /\ Len(Chain) = 2
        /\ NeverCancelled(r) /\ NoNodeFailed(r)
        /\ pc[r] = "loop" /\ Dispatched(r) = MaxSteps
        /\ current[r] \in DOMAIN nodes
        /\ \E i, j \in 1..Len(calls[r]) : i < j /\ calls[r][i].node = calls[r][j].node

\* C22: a Run called on a graph with an empty entrypoint invokes no node and
\* returns the initial state with a nil error, whether its context is live,
\* cancelled or past its deadline.
C22_EmptyEntrypoint ==
    \A r \in RunIds :
        (pc[r] # "idle" /\ entrypoint = Empty) =>
            /\ calls[r] = <<>>
            /\ pc[r] \in {"loop", "done"}
            /\ pc[r] = "done" => result[r] = [state |-> initial[r], err |-> NilErr]

C22_Witness ==
    \E r \in RunIds :
        /\ entrypoint = Empty /\ DOMAIN nodes # {}
        /\ pc[r] = "done" /\ calls[r] = <<>>
        /\ ctxErr[r] = Canceled
        /\ initial[r] = <<"s">>
        /\ result[r] = [state |-> <<"s">>, err |-> NilErr]

\* C23: when the name to dispatch is not empty and not registered and the
\* context is done, Run leaves the loop by returning the context's error, not a
\* nil error, with the state as of the last executed node, and invokes nothing.
C23_CancelBeforeLookup ==
    /\ [][\A r \in RunIds :
             (LeavesLoopTop(r) /\ current[r] # Empty /\ ~Registered(current[r])
                  /\ ctxErr[r] # NilErr) =>
                 /\ ReturnsNow(r, LastExecState(r), ctxErr[r])
                 /\ result'[r].err \in CtxErrors]_vars
    /\ [](\A r \in RunIds :
            (pc[r] = "done" /\ current[r] # Empty /\ ~Registered(current[r])) =>
                result[r] = [state |-> LastExecState(r), err |-> ctxErr[r]])

C23_Witness ==
    \E r \in RunIds :
        /\ pc[r] = "done" /\ Len(calls[r]) >= 1
        /\ current[r] # Empty /\ ~Registered(current[r])
        /\ ctxErr[r] = DeadlineExceeded
        /\ result[r] = [state |-> LastExecState(r), err |-> DeadlineExceeded]
        /\ result[r].state # initial[r]

\* The node call of run r that is in progress returns a nil error in this step.
NodeReturnsOk(r) ==
    /\ pc[r] \in {"exec", "route"}
    /\ Len(rets'[r]) = Len(rets[r]) + 1
    /\ rets'[r][Len(rets'[r])].err = NilErr

\* The node whose call is in progress in run r has no successor: it is not a
\* router and has no default edge, or its Route returns the empty string.
NoSuccessor(r) ==
    \/ pc[r] = "exec" /\ ~IsRouter(current[r]) /\ EdgesOf(current[r]) = <<>>
    \/ pc[r] = "route" /\ rets'[r][Len(rets'[r])].next = Empty

====
